---- MODULE Spec2Model ----
(***************************************************************************)
(* The ticket store, the ticket/created pipeline (processTicket) and the   *)
(* staff routes of the AI helpdesk, as a state machine.                    *)
(*                                                                         *)
(* Time is counted in units of 30 seconds, so that the rounding of         *)
(* Math.round(ms / 60000) is visible: an age of d units is d/2 minutes.    *)
(* All tickets are created in one calendar year; the ticketNumber field    *)
(* holds the sequence part of TK-<year>-<seq>.                             *)
(***************************************************************************)
EXTENDS Integers, Sequences, FiniteSets, TLC

VARIABLES now, users, creates, tickets, events, runs, sent, reqs, aiCall, deliveries,
          response

vars == <<now, users, creates, tickets, events, runs, sent, reqs, aiCall, deliveries,
          response>>

(* ------------------------------ bounds --------------------------------- *)
MaxTime == 1
MaxReqs == 3

PipelineTickets == {"t1"}
NumberingTickets == {"t1", "t2", "t3"}
RunIds == {"r1", "r2"}

(* ------------------------------ values --------------------------------- *)
None == "none"
Unset == -1

UserOrder == <<"m1", "m2", "a1", "u1">>
UserIds == {UserOrder[i] : i \in 1..Len(UserOrder)}

Priorities == {"low", "medium", "high"}
Statuses == {"open", "in-progress", "resolved", "closed"}
StaffRoles == {"moderator", "admin"}

BaseUsers ==
  [u \in UserIds |->
     CASE u = "m1" -> [role |-> "moderator", isActive |-> TRUE, skills |-> {"billing"}]
       [] u = "m2" -> [role |-> "moderator", isActive |-> TRUE, skills |-> {"billing", "general"}]
       [] u = "a1" -> [role |-> "admin", isActive |-> TRUE, skills |-> {}]
       [] OTHER    -> [role |-> "user", isActive |-> TRUE, skills |-> {}]]

(* the user collections the runs start from: with or without an active    *)
(* admin                                                                   *)
UserConfigs ==
  {[BaseUsers EXCEPT !["a1"].isActive = a] : a \in BOOLEAN}

(* authenticate: the token's user exists and is active *)
Authenticated(actor) == actor \in DOMAIN users /\ users[actor].isActive

(* no request answered yet *)
NoResponse ==
  [seq |-> 0, route |-> None, actor |-> None, status |-> 0, ids |-> {},
   moderatorId |-> None, assignedCount |-> 0, tickets |-> {}]

(* ----------------------------- authorize ------------------------------- *)
Roles == {"user", "moderator", "admin"}

(* an argument of authorize(...roles), here an array of strings; a string  *)
(* argument has kind "string"                                               *)
ArrayArg(names) == [kind |-> "array", names |-> names]

(* roles.includes(role): SameValueZero of a string with each collected      *)
(* argument, which no array satisfies                                       *)
Includes(roles, role) ==
  \E i \in 1..Len(roles) : roles[i].kind = "string" /\ role \in roles[i].names

(* the status authenticate and authorize(...roles) leave for the handler:   *)
(* 401, 403, or 200 when next() is reached                                  *)
Authorize(roles, actor) ==
  IF ~Authenticated(actor) THEN 401
  ELSE IF ~Includes(roles, users[actor].role) THEN 403
  ELSE 200

(* router.use(authorize(['admin'])) *)
AdminRouterRoles == <<ArrayArg({"admin"})>>

(* User.findByIdAndUpdate(id, { role }): no validators run *)
RoleUpdated(id, role) ==
  IF id \in DOMAIN users THEN [users EXCEPT ![id].role = role] ELSE users

(* User.findByIdAndDelete(id) *)
UserDeleted(id) == [u \in DOMAIN users \ {id} |-> users[u]]

(* PATCH /users/:id/role and DELETE /users/:id *)
AdminOps ==
  {[kind |-> "role", id |-> u, role |-> ro] : u \in UserIds, ro \in Roles}
  \cup {[kind |-> "delete", id |-> u, role |-> None] : u \in UserIds}

(* a request to the admin router, from authenticate to the response *)
AdminRequest(actor, op) ==
  LET status == Authorize(AdminRouterRoles, actor)
  IN /\ users' = IF status # 200 THEN users
                 ELSE IF op.kind = "role" THEN RoleUpdated(op.id, op.role)
                 ELSE UserDeleted(op.id)
     /\ response' = [NoResponse EXCEPT
                       !.route = "admin", !.actor = actor, !.status = status]
     /\ UNCHANGED <<aiCall, deliveries, now, creates, tickets, events, runs, sent, reqs>>

(* the handler of PATCH /users/:id/role, once the router's guards are passed *)
UpdateUserRole(id, role) ==
  /\ reqs < MaxReqs
  /\ users' = RoleUpdated(id, role)
  /\ reqs' = reqs + 1
  /\ UNCHANGED <<response, aiCall, deliveries, now, creates, tickets, events, runs, sent>>

(* the handler of DELETE /users/:id, once the router's guards are passed *)
DeleteUser(id) ==
  /\ reqs < MaxReqs
  /\ users' = UserDeleted(id)
  /\ reqs' = reqs + 1
  /\ UNCHANGED <<response, aiCall, deliveries, now, creates, tickets, events, runs, sent>>

(* ---------------------------- ticket model ----------------------------- *)
Live == DOMAIN tickets

(* Math.round((now - createdAt) / (1000 * 60)) with both times in 30 s units *)
Minutes(t0, t1) == ((t1 - t0) + 1) \div 2

(* JavaScript truthiness of a Number field: undefined and 0 are falsy *)
Falsy(n) == n = Unset \/ n = 0

(* the satisfaction subdocument before any rating *)
NoSatisfaction == [rating |-> Unset, feedback |-> None, submittedAt |-> Unset]

NewTicket(prio, seq) ==
  [ticketNumber |-> seq, user |-> "u1", category |-> "Billing", priority |-> prio,
   status |-> "open", comments |-> <<>>,
   aiPriority |-> None, assignedTo |-> None, assignedAt |-> Unset,
   assignedBy |-> None, responseTime |-> Unset, resolvedAt |-> Unset,
   resolutionTime |-> Unset, closedAt |-> Unset, createdAt |-> now,
   satisfaction |-> NoSatisfaction]

(* countDocuments({ ticketNumber: /^TK-<year>-/ }) *)
CountThisYear == Cardinality(Live)

(* the unique index on ticketNumber *)
NumberTaken(seq) == \E t \in Live : tickets[t].ticketNumber = seq

PreSaveTimesRestampsResolution(orig, doc) ==
  LET d1 == IF doc.assignedTo # orig.assignedTo /\ doc.assignedTo # None
               /\ Falsy(doc.responseTime)
            THEN [doc EXCEPT !.responseTime = Minutes(doc.createdAt, now)]
            ELSE doc
      d2 == IF d1.status # orig.status /\ d1.status = "resolved"
            THEN [d1 EXCEPT !.resolvedAt = now,
                            !.resolutionTime = Minutes(d1.createdAt, now)]
            ELSE d1
      d3 == IF d2.status # orig.status /\ d2.status = "closed"
               /\ d2.closedAt = Unset
            THEN [d2 EXCEPT !.closedAt = now]
            ELSE d2
  IN d3

(* the second pre('save') hook: response, resolution and closing times *)
PreSaveTimes(orig, doc) ==
  LET d1 == IF doc.assignedTo # orig.assignedTo /\ doc.assignedTo # None
               /\ Falsy(doc.responseTime)
            THEN [doc EXCEPT !.responseTime = Minutes(doc.createdAt, now)]
            ELSE doc
      d2 == IF d1.status # orig.status /\ d1.status = "resolved"
               /\ d1.resolvedAt = Unset
            THEN [d1 EXCEPT !.resolvedAt = now,
                            !.resolutionTime = Minutes(d1.createdAt, now)]
            ELSE d1
      d3 == IF d2.status # orig.status /\ d2.status = "closed"
               /\ d2.closedAt = Unset
            THEN [d2 EXCEPT !.closedAt = now]
            ELSE d2
  IN d3

AssignFieldsKeepStatus(doc, moderatorId, by) ==
  [doc EXCEPT !.assignedTo = moderatorId, !.assignedAt = now, !.assignedBy = by]

(* the four assignments of ticket.assignTo(moderatorId, assignedBy) *)
AssignFields(doc, moderatorId, by) ==
  [doc EXCEPT !.assignedTo = moderatorId, !.assignedAt = now,
              !.assignedBy = by, !.status = "in-progress"]

(* ticket.assignTo on a freshly loaded document, with its save() *)
AssignTo(doc, moderatorId, by) ==
  PreSaveTimes(doc, AssignFields(doc, moderatorId, by))

Store(t, doc) == [x \in Live \cup {t} |-> IF x = t THEN doc ELSE tickets[x]]

(* --------------------------- POST /api/tickets -------------------------- *)
(* req.body.priority || 'medium', within the schema's enum *)
CreatePriorities == Priorities

(* first pre('save') hook, up to the await of countDocuments: the number   *)
(* is fixed by the count read here                                         *)
CreateCount(c) ==
  /\ creates[c].pc = "idle"
  /\ creates' = [creates EXCEPT ![c] = [pc |-> "counted",
                                        number |-> CountThisYear + 1]]
  /\ UNCHANGED <<response, aiCall, deliveries, now, users, tickets, events, runs, sent, reqs>>

(* the insert, checked by the unique index, then the ticket/created event  *)
CreateSave(c) ==
  /\ creates[c].pc = "counted"
  /\ IF NumberTaken(creates[c].number)
     THEN /\ creates' = [creates EXCEPT ![c].pc = "rejected"]
          /\ UNCHANGED <<tickets, events>>
     ELSE \E prio \in CreatePriorities :
          /\ creates' = [creates EXCEPT ![c].pc = "saved"]
          /\ tickets' = Store(c, NewTicket(prio, creates[c].number))
          /\ events' = events \cup {c}
  /\ UNCHANGED <<response, aiCall, deliveries, now, users, runs, sent, reqs>>

(* ---------------------------- GET /api/tickets -------------------------- *)
(* req.query: each filter absent or given *)
Queries ==
  {[status |-> st, category |-> c, priority |-> p, search |-> x] :
     st \in {None, "in-progress"}, c \in {None, "Billing"}, p \in {None, "high"},
     x \in {None, "TK-", "refund"}}

(* the three $regex clauses on subject, description and ticketNumber: every  *)
(* ticketNumber begins with TK-, no ticket here mentions a refund            *)
SearchMatches(search, doc) == search = "TK-"

(* the query object: user for a user, $or for a moderator, the filters, and  *)
(* the search's $or, which is assigned to the same key                       *)
MatchesQuery(actor, q, doc) ==
  LET role == users[actor].role
      or == IF q.search # None THEN SearchMatches(q.search, doc)
            ELSE IF role = "moderator"
                 THEN doc.assignedTo = actor \/ doc.assignedTo = None
                 ELSE TRUE
  IN /\ role = "user" => doc.user = actor
     /\ or
     /\ q.status # None => doc.status = q.status
     /\ q.category # None => doc.category = q.category
     /\ q.priority # None => doc.priority = q.priority

(* the first page, which holds every matching ticket of the small store *)
ListTickets(actor, q) ==
  /\ Authenticated(actor)
  /\ response' = [NoResponse EXCEPT
                    !.route = "list", !.actor = actor, !.status = 200,
                    !.tickets = {t \in Live : MatchesQuery(actor, q, tickets[t])}]
  /\ UNCHANGED <<aiCall, deliveries, now, users, creates, tickets, events, runs, sent, reqs>>

(* ------------------------ DELETE /api/tickets/:id ----------------------- *)
DeleteTicket(actor, t) ==
  /\ Authenticated(actor) /\ users[actor].role = "admin"
  /\ t \in Live
  /\ tickets' = [x \in Live \ {t} |-> tickets[x]]
  /\ UNCHANGED <<response, aiCall, deliveries, now, users, creates, events, runs, sent, reqs>>

(* ------------------------- staff routes (HTTP) -------------------------- *)
(* authenticate + isModerator: an active user whose role is moderator or   *)
(* admin                                                                   *)
IsModerator(actor) == Authenticated(actor) /\ users[actor].role \in StaffRoles

(* the role check the assigning routes make on the target user *)
ValidAssignee(m) == m \in DOMAIN users /\ users[m].role \in StaffRoles

(* PUT /api/tickets/:id *)
UpdateTicket(actor, t, body) ==
  /\ IsModerator(actor)
  /\ reqs < MaxReqs
  /\ t \in Live
  /\ \/ users[actor].role = "admin"
     \/ tickets[t].assignedTo = actor
     \/ tickets[t].assignedTo = None
  /\ LET orig == tickets[t]
         d1 == IF body.status \in Statuses
               THEN [orig EXCEPT !.status = body.status] ELSE orig
         d2 == IF body.priority \in Priorities
               THEN [d1 EXCEPT !.priority = body.priority] ELSE d1
     IN IF body.assignedTo # None
        THEN IF ValidAssignee(body.assignedTo)
             THEN tickets' = Store(t, PreSaveTimes(orig,
                                        AssignFields(d2, body.assignedTo, actor)))
             ELSE UNCHANGED tickets
        ELSE tickets' = Store(t, PreSaveTimes(orig, d2))
  /\ reqs' = reqs + 1
  /\ UNCHANGED <<response, aiCall, deliveries, now, users, creates, events, runs, sent>>

(* PUT /api/tickets/:id/assign; its ticket/assigned event has no consumer  *)
AssignTicket(actor, t, moderatorId) ==
  /\ IsModerator(actor)
  /\ reqs < MaxReqs
  /\ t \in Live
  /\ ValidAssignee(moderatorId)
  /\ tickets' = Store(t, AssignTo(tickets[t], moderatorId, actor))
  /\ reqs' = reqs + 1
  /\ UNCHANGED <<response, aiCall, deliveries, now, users, creates, events, runs, sent>>

BulkAssignAny(actor, ids, moderatorId) ==
  /\ IsModerator(actor)
  /\ reqs < MaxReqs
  /\ ids # {}
  /\ ValidAssignee(moderatorId)
  /\ tickets' = [x \in Live |->
                   IF x \in ids
                   THEN AssignFields(tickets[x], moderatorId, actor)
                   ELSE tickets[x]]
  /\ response' = [NoResponse EXCEPT
                    !.route = "bulk-assign", !.status = 200, !.ids = ids,
                    !.assignedCount = Cardinality(Live \cap ids)]
  /\ reqs' = reqs + 1
  /\ UNCHANGED <<aiCall, deliveries, now, users, creates, events, runs, sent>>

(* PUT /api/moderator/bulk-assign: updateMany, which runs no save hook *)
BulkAssign(actor, ids, moderatorId) ==
  /\ IsModerator(actor)
  /\ reqs < MaxReqs
  /\ ids # {}
  /\ ValidAssignee(moderatorId)
  /\ tickets' = [x \in Live |->
                   IF x \in ids /\ tickets[x].assignedTo = None
                   THEN AssignFields(tickets[x], moderatorId, actor)
                   ELSE tickets[x]]
  /\ response' = [NoResponse EXCEPT
                    !.route = "bulk-assign", !.status = 200, !.ids = ids,
                    !.assignedCount =
                       Cardinality({x \in Live \cap ids : tickets[x].assignedTo = None})]
  /\ reqs' = reqs + 1
  /\ UNCHANGED <<aiCall, deliveries, now, users, creates, events, runs, sent>>

(* POST /api/tickets/:id/satisfaction, any authenticated user *)
Ratings == 1..5
Feedbacks == {None, "slow"}

(* ticket.addSatisfactionRating(rating, feedback) before its save() *)
SatisfactionFields(doc, rating, feedback) ==
  [doc EXCEPT !.satisfaction =
     [rating |-> rating,
      feedback |-> IF feedback = None THEN "" ELSE feedback,
      submittedAt |-> now]]

AddSatisfaction(actor, t, rating, feedback) ==
  /\ Authenticated(actor)
  /\ reqs < MaxReqs
  /\ rating \in Ratings
  /\ t \in Live
  /\ tickets[t].user = actor
  /\ tickets[t].status \in {"resolved", "closed"}
  /\ tickets' = Store(t, PreSaveTimes(tickets[t],
                                      SatisfactionFields(tickets[t], rating, feedback)))
  /\ reqs' = reqs + 1
  /\ UNCHANGED <<response, aiCall, deliveries, now, users, creates, events, runs, sent>>

(* POST /api/tickets/:id/comments, any authenticated user *)
Messages == {"thanks", "  thanks ", "   "}

(* String.prototype.trim on the messages above *)
Trim(message) ==
  CASE message = "  thanks " -> "thanks"
    [] message = "   " -> ""
    [] OTHER -> message

CommentFieldsPrepend(doc, userId, message, isInternal) ==
  [doc EXCEPT !.comments =
     <<[user |-> userId, message |-> Trim(message), isInternal |-> isInternal,
        createdAt |-> now]>> \o @]

(* ticket.addComment(userId, message, isInternal) before its save() *)
CommentFields(doc, userId, message, isInternal) ==
  [doc EXCEPT !.comments =
     Append(@, [user |-> userId, message |-> Trim(message), isInternal |-> isInternal,
                createdAt |-> now])]

AddComment(actor, t, message, isInternal) ==
  /\ Authenticated(actor)
  /\ reqs < MaxReqs
  /\ Trim(message) # ""
  /\ t \in Live
  /\ \/ users[actor].role = "admin"
     \/ tickets[t].user = actor
     \/ users[actor].role = "moderator" /\ tickets[t].assignedTo = actor
  /\ LET isInternalComment == isInternal /\ users[actor].role \in StaffRoles
     IN tickets' = Store(t, PreSaveTimes(tickets[t],
                              CommentFields(tickets[t], actor, Trim(message),
                                            isInternalComment)))
  /\ reqs' = reqs + 1
  /\ UNCHANGED <<response, aiCall, deliveries, now, users, creates, events, runs, sent>>

(* ---------------------- processTicket (ticket/created) ------------------ *)
(* results of analyzeTicket the runs are given *)
AnalysisResults ==
  {[aiPriority |-> "high", requiredSkills |-> {"billing"}],
   [aiPriority |-> "medium", requiredSkills |-> {"kubernetes"}],
   [aiPriority |-> "low", requiredSkills |-> {}]}

Notification(type, to, t, eta, reason) ==
  [type |-> type, to |-> to, ticketId |-> t, estimatedResponse |-> eta,
   reason |-> reason]

NoModeratorReason == "No moderator available with required skills"

(* Ticket.countDocuments({ assignedTo: m, status: { $in: [open, in-progress] } }) *)
Workload(m) ==
  Cardinality({t \in Live : tickets[t].assignedTo = m
                            /\ tickets[t].status \in {"open", "in-progress"}})

(* User.findModeratorsBySkills(skills), in the collection's natural order *)
FindModeratorsBySkills(skills) ==
  SelectSeq(UserOrder, LAMBDA u : /\ u \in DOMAIN users
                                  /\ users[u].role \in StaffRoles
                                  /\ users[u].isActive
                                  /\ users[u].skills \cap skills # {})

(* Array.prototype.sort by currentWorkload ascending (a stable sort) *)
RECURSIVE InsertByWorkload(_, _)
InsertByWorkload(m, sorted) ==
  IF sorted = <<>> THEN <<m>>
  ELSE IF Workload(Head(sorted)) <= Workload(m)
       THEN <<Head(sorted)>> \o InsertByWorkload(m, Tail(sorted))
       ELSE <<m>> \o sorted

RECURSIVE SortByWorkload(_)
SortByWorkload(ms) ==
  IF ms = <<>> THEN <<>>
  ELSE InsertByWorkload(ms[Len(ms)], SortByWorkload(SubSeq(ms, 1, Len(ms) - 1)))

FindOneAdminAnyState ==
  LET admins == SelectSeq(UserOrder, LAMBDA u : u \in DOMAIN users /\ users[u].role = "admin")
  IN IF admins = <<>> THEN None ELSE Head(admins)

(* User.findOne({ role: 'admin', isActive: true }) *)
FindOneActiveAdmin ==
  LET admins == SelectSeq(UserOrder, LAMBDA u : /\ u \in DOMAIN users
                                                /\ users[u].role = "admin"
                                                /\ users[u].isActive)
  IN IF admins = <<>> THEN None ELSE Head(admins)

IdleRun ==
  [pc |-> "idle", ticketId |-> None, aiPriority |-> None, requiredSkills |-> {},
   selected |-> None, repoFailed |-> FALSE, err |-> None]

(* a step that throws ends the run as failed; retries by the task runner of  *)
(* a step that keeps throwing are not modelled                              *)
Fail(r, why) == runs' = [runs EXCEPT ![r].pc = "failed", ![r].err = why]

(* delivery of a ticket/created event to the function: a new run *)
StartRun(r, t) ==
  /\ runs[r].pc = "idle"
  /\ t \in events
  /\ runs' = [runs EXCEPT ![r] = [IdleRun EXCEPT !.pc = "ai-analysis", !.ticketId = t]]
  /\ UNCHANGED <<response, aiCall, deliveries, now, users, creates, tickets, events, sent, reqs>>

StepAnalysisSkipsUpdate(r) ==
  /\ runs[r].pc = "ai-analysis"
  /\ \E a \in AnalysisResults :
       runs' = [runs EXCEPT ![r].pc = "find-moderator", ![r].aiPriority = a.aiPriority,
                            ![r].requiredSkills = a.requiredSkills]
  /\ UNCHANGED <<response, aiCall, deliveries, now, users, creates, tickets, events, sent, reqs>>

(* step 'ai-analysis': analyzeTicket returns a validated or fallback result *)
StepAnalysis(r) ==
  /\ runs[r].pc = "ai-analysis"
  /\ \E a \in AnalysisResults :
       runs' = [runs EXCEPT ![r].pc = "update-ticket", ![r].aiPriority = a.aiPriority,
                            ![r].requiredSkills = a.requiredSkills]
  /\ UNCHANGED <<response, aiCall, deliveries, now, users, creates, tickets, events, sent, reqs>>

AdoptAiPriority(stored, ai) == ai

(* the priority step 2 stores *)
EscalatedPriority(stored, ai) ==
  IF ai = "high" /\ stored # "high" THEN ai ELSE stored

StepUpdateNoLookupCheck(r) ==
  /\ runs[r].pc = "update-ticket"
  /\ LET t == runs[r].ticketId IN
     IF t \notin Live
     THEN runs' = [runs EXCEPT ![r].pc = "find-moderator"] /\ UNCHANGED tickets
     ELSE LET orig == tickets[t]
              doc == [orig EXCEPT !.aiPriority = runs[r].aiPriority,
                                  !.priority = EscalatedPriority(orig.priority,
                                                                 runs[r].aiPriority)]
          IN /\ tickets' = Store(t, PreSaveTimes(orig, doc))
             /\ runs' = [runs EXCEPT ![r].pc = "find-moderator"]
  /\ UNCHANGED <<response, aiCall, deliveries, now, users, creates, events, sent, reqs>>

(* step 'update-ticket' *)
StepUpdate(r) ==
  /\ runs[r].pc = "update-ticket"
  /\ LET t == runs[r].ticketId IN
     IF t \notin Live
     THEN Fail(r, "not_found") /\ UNCHANGED tickets
     ELSE \E dbOk \in BOOLEAN :
          IF ~dbOk
          THEN Fail(r, "update_save") /\ UNCHANGED tickets
          ELSE LET orig == tickets[t]
                   doc == [orig EXCEPT !.aiPriority = runs[r].aiPriority,
                                       !.priority = EscalatedPriority(orig.priority,
                                                                      runs[r].aiPriority)]
               IN /\ tickets' = Store(t, PreSaveTimes(orig, doc))
                  /\ runs' = [runs EXCEPT ![r].pc = "find-moderator"]
  /\ UNCHANGED <<response, aiCall, deliveries, now, users, creates, events, sent, reqs>>

SelectModeratorFirstListed(requiredSkills) ==
  IF requiredSkills = {} THEN None
  ELSE LET suitable == FindModeratorsBySkills(requiredSkills)
       IN IF suitable = <<>> THEN None ELSE Head(suitable)

SelectModeratorIgnoresEmpty(requiredSkills) ==
  LET suitable == IF requiredSkills = {}
                  THEN SelectSeq(UserOrder, LAMBDA u : /\ u \in DOMAIN users
                                                       /\ users[u].role = "moderator"
                                                       /\ users[u].isActive)
                  ELSE FindModeratorsBySkills(requiredSkills)
  IN IF suitable = <<>> THEN None ELSE Head(SortByWorkload(suitable))

(* the moderator step 3 returns when its queries succeed *)
SelectModerator(requiredSkills) ==
  IF requiredSkills = {} THEN None
  ELSE LET suitable == FindModeratorsBySkills(requiredSkills)
       IN IF suitable = <<>> THEN None ELSE Head(SortByWorkload(suitable))

StepFindThrows(r) ==
  /\ runs[r].pc = "find-moderator"
  /\ \E repoOk \in BOOLEAN :
       LET caught == ~repoOk /\ runs[r].requiredSkills # {}
       IN IF caught
          THEN runs' = [runs EXCEPT ![r].pc = "failed", ![r].repoFailed = TRUE,
                                    ![r].err = "find_query"]
          ELSE runs' = [runs EXCEPT ![r].pc = "assign-ticket",
                                    ![r].selected = SelectModerator(runs[r].requiredSkills)]
  /\ UNCHANGED <<response, aiCall, deliveries, now, users, creates, tickets, events, sent, reqs>>

(* step 'find-moderator': a failing query is caught and yields null *)
StepFind(r) ==
  /\ runs[r].pc = "find-moderator"
  /\ \E repoOk \in BOOLEAN :
       LET caught == ~repoOk /\ runs[r].requiredSkills # {}
       IN runs' = [runs EXCEPT ![r].pc = "assign-ticket",
                               ![r].repoFailed = caught,
                               ![r].selected =
                                  IF caught THEN None
                                  ELSE SelectModerator(runs[r].requiredSkills)]
  /\ UNCHANGED <<response, aiCall, deliveries, now, users, creates, tickets, events, sent, reqs>>

(* ticket.assignTo(target, 'system') followed by inngest.send(note) *)
AssignAndNotify(r, t, target, type, reason) ==
  IF t \notin Live
  THEN Fail(r, "null_ticket") /\ UNCHANGED <<tickets, sent>>
  ELSE \E dbOk, sendOk \in BOOLEAN :
       IF ~dbOk
       THEN Fail(r, "assign_save") /\ UNCHANGED <<tickets, sent>>
       ELSE /\ tickets' = Store(t, AssignTo(tickets[t], target, "system"))
            /\ IF sendOk
               THEN /\ sent' = [sent EXCEPT ![r] =
                                  Append(@, Notification(type, target, t, None, reason))]
                    /\ runs' = [runs EXCEPT ![r].pc = "notify-user"]
               ELSE Fail(r, "assign_send") /\ UNCHANGED sent

StepAssignFallbackUnmarked(r) ==
  /\ runs[r].pc = "assign-ticket"
  /\ LET t == runs[r].ticketId
         target == IF runs[r].selected # None THEN runs[r].selected
                   ELSE FindOneActiveAdmin
     IN IF target # None
        THEN AssignAndNotify(r, t, target, "ticket_assigned", None)
        ELSE /\ runs' = [runs EXCEPT ![r].pc = "notify-user"]
             /\ UNCHANGED <<tickets, sent>>
  /\ UNCHANGED <<response, aiCall, deliveries, now, users, creates, events, reqs>>

(* step 'assign-ticket' *)
StepAssign(r) ==
  /\ runs[r].pc = "assign-ticket"
  /\ LET t == runs[r].ticketId IN
     IF runs[r].selected # None
     THEN AssignAndNotify(r, t, runs[r].selected, "ticket_assigned", None)
     ELSE IF FindOneActiveAdmin # None
          THEN AssignAndNotify(r, t, FindOneActiveAdmin, "ticket_assigned_fallback",
                               NoModeratorReason)
          ELSE /\ runs' = [runs EXCEPT ![r].pc = "notify-user"]
               /\ UNCHANGED <<tickets, sent>>
  /\ UNCHANGED <<response, aiCall, deliveries, now, users, creates, events, reqs>>

StepNotifyFlatEstimate(r) ==
  /\ runs[r].pc = "notify-user"
  /\ \E sendOk \in BOOLEAN :
       IF sendOk
       THEN /\ sent' = [sent EXCEPT ![r] =
                          Append(@, Notification("ticket_created", "u1", runs[r].ticketId,
                                                 "4-8 hours", None))]
            /\ runs' = [runs EXCEPT ![r].pc = "done"]
       ELSE Fail(r, "notify_send") /\ UNCHANGED sent
  /\ UNCHANGED <<response, aiCall, deliveries, now, users, creates, tickets, events, reqs>>

(* step 'notify-user', then the function's return value *)
StepNotify(r) ==
  /\ runs[r].pc = "notify-user"
  /\ \E sendOk \in BOOLEAN :
       IF sendOk
       THEN /\ sent' = [sent EXCEPT ![r] =
                          Append(@, Notification("ticket_created", "u1", runs[r].ticketId,
                                   IF runs[r].selected # None THEN "2-4 hours" ELSE "4-8 hours",
                                   None))]
            /\ runs' = [runs EXCEPT ![r].pc = "done"]
       ELSE Fail(r, "notify_send") /\ UNCHANGED sent
  /\ UNCHANGED <<response, aiCall, deliveries, now, users, creates, tickets, events, reqs>>

(* ------------------------------- clock ---------------------------------- *)
Tick ==
  /\ now < MaxTime
  /\ now' = now + 1
  /\ UNCHANGED <<response, aiCall, deliveries, users, creates, tickets, events, runs, sent, reqs>>

(* ----------------------- GeminiService.analyzeTicket -------------------- *)
(* Strings are kept by their length; list items by their JavaScript type.   *)
SummaryLimit == 1000
TagLimit == 10
SkillLimit == 5
FallbackTagLimit == 5
FallbackSkillLimit == 3

ValidCategories ==
  {"Technical Issue", "Account Problem", "Feature Request", "Bug Report",
   "General Inquiry", "Billing", "Security", "Performance", "Integration", "Other"}

(* a field the parsed object does not have *)
Absent == "absent"

Min(a, b) == IF a <= b THEN a ELSE b

(* Array.prototype.slice(0, n) and String.prototype.substring(0, n) *)
Slice(q, n) == SubSeq(q, 1, Min(Len(q), n))

(* Object.keys(skillKeywords), in insertion order, with their tags *)
SkillKeywords ==
  <<[keyword |-> "react", tag |-> "React"], [keyword |-> "node", tag |-> "Node.js"],
    [keyword |-> "javascript", tag |-> "JavaScript"],
    [keyword |-> "database", tag |-> "Database"], [keyword |-> "api", tag |-> "API"],
    [keyword |-> "frontend", tag |-> "Frontend"], [keyword |-> "backend", tag |-> "Backend"],
    [keyword |-> "mobile", tag |-> "Mobile"], [keyword |-> "web", tag |-> "Web Development"]>>

HighWords == {"urgent", "critical", "down", "error", "security", "hack"}
LowWords == {"request", "question", "help"}

ValidateAnalysisTrusting(analysis) ==
  [aiCategory |-> analysis.aiCategory,
   aiPriority |-> analysis.aiPriority,
   aiSummary |-> [text |-> "upstream", len |-> analysis.aiSummary.len],
   suggestedTags |-> analysis.suggestedTags.items,
   requiredSkills |-> analysis.requiredSkills.items]

(* validateAnalysis(analysis) *)
ValidateAnalysis(analysis) ==
  [aiCategory |-> IF analysis.aiCategory \in ValidCategories
                  THEN analysis.aiCategory ELSE "Other",
   aiPriority |-> IF analysis.aiPriority \in Priorities
                  THEN analysis.aiPriority ELSE "medium",
   aiSummary |-> IF analysis.aiSummary.type = "string"
                 THEN [text |-> "upstream",
                       len |-> Min(analysis.aiSummary.len, SummaryLimit)]
                 ELSE [text |-> "AI analysis summary not available", len |-> 33],
   suggestedTags |-> IF analysis.suggestedTags.isArray
                     THEN SelectSeq(Slice(analysis.suggestedTags.items, TagLimit),
                                    LAMBDA x : x = "string")
                     ELSE <<>>,
   requiredSkills |-> IF analysis.requiredSkills.isArray
                      THEN SelectSeq(Slice(analysis.requiredSkills.items, SkillLimit),
                                     LAMBDA x : x = "string")
                      ELSE <<>>]

GetFallbackAnalysisLowFirst(subjectLen, words, category) ==
  LET priority == IF words \cap LowWords # {} THEN "low"
                  ELSE IF words \cap HighWords # {} THEN "high"
                  ELSE "medium"
      found == SelectSeq(SkillKeywords, LAMBDA k : k.keyword \in words)
      tags == [i \in 1..Len(found) |-> found[i].tag]
  IN [aiCategory |-> IF category = None THEN "General Inquiry" ELSE category,
      aiPriority |-> priority,
      aiSummary |-> [text |-> "Ticket regarding <subject>. Requires technical assistance.",
                     len |-> 49 + subjectLen],
      suggestedTags |-> Slice(tags, FallbackTagLimit),
      requiredSkills |-> Slice(tags, FallbackSkillLimit)]

(* getFallbackAnalysis(subject, description, category); words is the set of  *)
(* keywords that `${subject} ${description}`.toLowerCase() includes         *)
GetFallbackAnalysis(subjectLen, words, category) ==
  LET priority == IF words \cap HighWords # {} THEN "high"
                  ELSE IF words \cap LowWords # {} THEN "low"
                  ELSE "medium"
      found == SelectSeq(SkillKeywords, LAMBDA k : k.keyword \in words)
      tags == [i \in 1..Len(found) |-> found[i].tag]
  IN [aiCategory |-> IF category = None THEN "General Inquiry" ELSE category,
      aiPriority |-> priority,
      aiSummary |-> [text |-> "Ticket regarding <subject>. Requires technical assistance.",
                     len |-> 49 + subjectLen],
      suggestedTags |-> Slice(tags, FallbackTagLimit),
      requiredSkills |-> Slice(tags, FallbackSkillLimit)]

(* lists the generative model may put in its answer: n items, all strings    *)
(* or with a number in first or last place                                   *)
ListOf(n, k) == [i \in 1..n |-> IF i = k THEN "number" ELSE "string"]

UpstreamLists ==
  {[isArray |-> FALSE, items |-> <<>>]}
  \cup {[isArray |-> TRUE, items |-> ListOf(n, k)] :
          n \in {0, SkillLimit, SkillLimit + 1, TagLimit, TagLimit + 1},
          k \in {0, 1}}

UpstreamSummaries ==
  {[type |-> "undefined", len |-> 0], [type |-> "number", len |-> 0]}
  \cup {[type |-> "string", len |-> n] : n \in {0, 120, SummaryLimit + 1}}

(* the parsed object when there is none *)
NoBody ==
  [aiCategory |-> Absent, aiPriority |-> Absent,
   aiSummary |-> [type |-> "undefined", len |-> 0],
   suggestedTags |-> [isArray |-> FALSE, items |-> <<>>],
   requiredSkills |-> [isArray |-> FALSE, items |-> <<>>]]

(* what generateContent, extractJSON and JSON.parse can do with a call *)
UpstreamResponses ==
  {[kind |-> k, body |-> NoBody] : k \in {"generate_throws", "no_json_object", "parse_throws"}}
  \cup {[kind |-> "json",
         body |-> [aiCategory |-> c, aiPriority |-> p, aiSummary |-> sm,
                   suggestedTags |-> tg, requiredSkills |-> sk]] :
          c \in {"Billing", "Hardware", Absent}, p \in {"high", "urgent", Absent},
          sm \in UpstreamSummaries, tg \in UpstreamLists, sk \in UpstreamLists}

NoResult ==
  [aiCategory |-> None, aiPriority |-> None, aiSummary |-> [text |-> None, len |-> 0],
   suggestedTags |-> <<>>, requiredSkills |-> <<>>]

NoCall ==
  [pc |-> "none", subjectLen |-> 0, words |-> {}, category |-> None,
   upstream |-> None, body |-> NoBody, result |-> NoResult]

(* the calls processTicket makes: subject and description are non-empty      *)
(* strings and category is one of the schema's categories                    *)
AnalysisCalls ==
  {[NoCall EXCEPT !.pc = "called", !.subjectLen = n, !.words = w, !.category = c] :
     n \in {1, 200},
     w \in {{}, {"help"}, {"help", "error", "api"},
            {"react", "node", "javascript", "database"},
            {"request"} \cup {SkillKeywords[i].keyword : i \in 1..Len(SkillKeywords)}},
     c \in {"Billing", "Other"}}

(* analyzeTicket(subject, description, category): the try block and its catch *)
AnalyzeTicket ==
  /\ aiCall.pc = "called"
  /\ \E up \in UpstreamResponses :
       aiCall' = [aiCall EXCEPT
                    !.pc = "returned",
                    !.upstream = up.kind,
                    !.body = up.body,
                    !.result = IF up.kind = "json"
                               THEN ValidateAnalysis(up.body)
                               ELSE GetFallbackAnalysis(aiCall.subjectLen, aiCall.words,
                                                        aiCall.category)]
  /\ UNCHANGED <<response, now, users, creates, tickets, events, runs, sent, reqs, deliveries>>

(* ------------------- sendNotification (notification/send) --------------- *)
KnownTypes == {"ticket_created", "ticket_assigned", "ticket_assigned_fallback",
               "ticket_updated"}

(* notification/send events that do not come from processTicket *)
ExternalTypes == {"ticket_updated", "password_reset"}

(* events of one origin already handled *)
Delivered(origin) ==
  Len(SelectSeq(deliveries, LAMBDA d : d.origin = origin))

SendNotificationRethrows(origin, type, mailOk) ==
  [origin |-> origin, type |-> type,
   success |-> type \in KnownTypes /\ mailOk,
   error |-> None,
   raised |-> ~(type \in KnownTypes /\ mailOk)]

(* the body of step 'send-email': the switch inside try, and the catch that  *)
(* returns the failure instead of throwing it                                *)
SendNotification(origin, type, mailOk) ==
  [origin |-> origin, type |-> type,
   success |-> type \in KnownTypes /\ mailOk,
   error |-> IF type \notin KnownTypes THEN "Unknown notification type"
             ELSE IF ~mailOk THEN "sendMail rejected"
             ELSE None,
   raised |-> FALSE]

(* the next notification a run has enqueued is handled *)
DispatchSent(r) ==
  /\ Delivered(r) < Len(sent[r])
  /\ \E mailOk \in BOOLEAN :
       deliveries' = Append(deliveries,
                        SendNotification(r, sent[r][Delivered(r) + 1].type, mailOk))
  /\ UNCHANGED <<response, aiCall, now, users, creates, tickets, events, runs, sent, reqs>>

(* an event sent by another producer is handled *)
DispatchExternal(type) ==
  /\ Delivered(type) = 0
  /\ \E mailOk \in BOOLEAN :
       deliveries' = Append(deliveries, SendNotification(type, type, mailOk))
  /\ UNCHANGED <<response, aiCall, now, users, creates, tickets, events, runs, sent, reqs>>

(* --------------------------- initial states ----------------------------- *)
InitWith(slots) ==
  /\ now = 0
  /\ users \in UserConfigs
  /\ creates = [c \in slots |-> [pc |-> "idle", number |-> 0]]
  /\ tickets = <<>>
  /\ events = {}
  /\ runs = [r \in RunIds |-> IdleRun]
  /\ sent = [r \in RunIds |-> <<>>]
  /\ reqs = 0
  /\ deliveries = <<>>
  /\ response = NoResponse

(* ------------------------------ the system ------------------------------ *)
Init == InitWith(PipelineTickets) /\ aiCall = NoCall

(* request bodies of PUT /api/tickets/:id *)
UpdateBodies ==
  {[status |-> s, priority |-> None, assignedTo |-> None] : s \in Statuses}
  \cup {[status |-> None, priority |-> p, assignedTo |-> None] : p \in Priorities}
  \cup {[status |-> s, priority |-> None, assignedTo |-> m] :
           s \in {None, "resolved"}, m \in UserIds}

PipelineStep(r) ==
  \/ \E t \in events : StartRun(r, t)
  \/ StepAnalysis(r)
  \/ StepUpdate(r)
  \/ StepFind(r)
  \/ StepAssign(r)
  \/ StepNotify(r)

(* the pipeline with ticket creation, deletion and manual assignment *)
Next ==
  \/ \E c \in DOMAIN creates : CreateCount(c)
  \/ \E c \in DOMAIN creates : CreateSave(c)
  \/ \E a \in UserIds, t \in Live : DeleteTicket(a, t)
  \/ \E a \in UserIds, t \in Live, m \in UserIds : AssignTicket(a, t, m)
  \/ \E r \in RunIds : PipelineStep(r)

Spec == Init /\ [][Next]_vars

(* ------------- a ticket under the staff routes, with the clock ---------- *)
StaffRuns == {"r1"}

NextStaff ==
  \/ Tick
  \/ \E c \in DOMAIN creates : CreateCount(c)
  \/ \E c \in DOMAIN creates : CreateSave(c)
  \/ \E a \in UserIds, t \in Live, b \in UpdateBodies : UpdateTicket(a, t, b)
  \/ \E a \in UserIds, t \in Live, m \in UserIds : AssignTicket(a, t, m)
  \/ \E a \in UserIds, ids \in SUBSET DOMAIN creates, m \in UserIds : BulkAssign(a, ids, m)
  \/ \E r \in StaffRuns : PipelineStep(r)

SpecStaff == Init /\ [][NextStaff]_vars

(* ------------------------ claims on the pipeline ------------------------ *)
RECURSIVE CountType(_, _)
CountType(q, type) ==
  IF q = <<>> THEN 0
  ELSE (IF Head(q).type = type THEN 1 ELSE 0) + CountType(Tail(q), type)

AssignmentNotes(q) ==
  CountType(q, "ticket_assigned") + CountType(q, "ticket_assigned_fallback")

Ended(r) == runs[r].pc \in {"done", "failed"}
Stepped(r) == runs'[r] # runs[r]

(* an earlier run has fully processed the ticket: AI fields and assignee set *)
FullyProcessed(t) ==
  /\ t \in Live
  /\ tickets[t].aiPriority # None
  /\ tickets[t].assignedTo # None
  /\ \E r0 \in RunIds : runs[r0].ticketId = t /\ runs[r0].pc = "done"

C4_ConfirmationAlwaysSent ==
  \A r \in RunIds :
    (Ended(r) /\ runs[r].err \notin {"not_found", "update_save"})
      => CountType(sent[r], "ticket_created") = 1

(* C5: a failure of any operation other than the step-2 ticket lookup is    *)
(* absorbed: the run does not end as failed.                                *)
C5_OnlyLookupIsFatal ==
  \A r \in RunIds : runs[r].pc = "failed" => runs[r].err = "not_found"

ActiveAdmins == {u \in DOMAIN users : users[u].role = "admin" /\ users[u].isActive}

C11_NoAdminLeavesUnassigned ==
  /\ [](\A r \in RunIds :
          (runs[r].pc = "done" /\ runs[r].selected = None /\ ActiveAdmins = {})
            => /\ sent[r] = <<Notification("ticket_created", "u1", runs[r].ticketId,
                                           "4-8 hours", None)>>
               /\ (reqs = 0 /\ runs[r].ticketId \in Live
                    /\ \A q \in RunIds : runs[q].selected = None)
                    => /\ tickets[runs[r].ticketId].assignedTo = None
                       /\ tickets[runs[r].ticketId].status = "open")
  /\ [][\A r \in RunIds :
          (Stepped(r) /\ runs[r].pc = "assign-ticket" /\ runs[r].selected = None
             /\ ActiveAdmins = {})
            => /\ runs'[r].pc = "notify-user" /\ runs'[r].err = None
               /\ tickets' = tickets /\ sent' = sent]_vars

C11_Witness ==
  \E r \in RunIds :
    /\ runs[r].pc = "done" /\ runs[r].selected = None /\ ActiveAdmins = {}
    /\ runs[r].ticketId \in Live
    /\ tickets[runs[r].ticketId].assignedTo = None
    /\ tickets[runs[r].ticketId].status = "open"
    /\ Len(sent[r]) = 1

(* C12: when the required skills are not empty and some candidate matches   *)
(* them, the moderator step 3 selects is a candidate of minimal workload,   *)
(* and the first such candidate in the order the query returned them.       *)
C12_LeastLoadedFirstSeen ==
  [][\A r \in RunIds :
       LET pool == FindModeratorsBySkills(runs[r].requiredSkills)
           sel == runs'[r].selected
       IN (Stepped(r) /\ runs[r].pc = "find-moderator" /\ runs[r].requiredSkills # {}
             /\ ~runs'[r].repoFailed /\ pool # <<>>)
            => \E i \in 1..Len(pool) :
                 /\ pool[i] = sel
                 /\ \A j \in 1..Len(pool) : Workload(pool[j]) >= Workload(sel)
                 /\ \A j \in 1..(i - 1) : Workload(pool[j]) > Workload(sel)]_vars

C12_Witness ==
  \E r \in RunIds :
    /\ runs[r].pc = "assign-ticket" /\ runs[r].selected = "m2"
    /\ Workload("m1") > Workload("m2")

(* C13: with an empty list of required skills step 3 selects no moderator,  *)
(* whatever moderators exist and whatever their workloads, and the run      *)
(* enqueues no ticket_assigned: it takes the admin fallback of step 4.      *)
C13_EmptySkillsSelectNobody ==
  /\ [](\A r \in RunIds :
          (runs[r].aiPriority # None /\ runs[r].requiredSkills = {})
            => runs[r].selected = None /\ CountType(sent[r], "ticket_assigned") = 0)
  /\ [][\A r \in RunIds :
          (Stepped(r) /\ runs[r].pc = "find-moderator" /\ runs[r].requiredSkills = {})
            => runs'[r].selected = None /\ runs'[r].pc = "assign-ticket"]_vars

C13_Witness ==
  \E r \in RunIds :
    /\ runs[r].pc = "done" /\ runs[r].aiPriority # None /\ runs[r].requiredSkills = {}
    /\ CountType(sent[r], "ticket_assigned_fallback") = 1
    /\ \E u \in DOMAIN users : users[u].role = "moderator" /\ users[u].isActive
                          /\ Workload(u) = 0

(* C14: step 2 never lowers the stored priority: after it the priority is   *)
(* high when the AI priority is high and is the priority stored before      *)
(* otherwise.                                                               *)
C14_PriorityNeverLowered ==
  [][\A r \in RunIds :
       (Stepped(r) /\ runs[r].pc = "update-ticket" /\ runs'[r].pc = "find-moderator")
         => LET t == runs[r].ticketId IN
            tickets'[t].priority = IF runs[r].aiPriority = "high" THEN "high"
                                   ELSE tickets[t].priority]_vars

C14_Witness ==
  /\ \E r \in RunIds :
       /\ runs[r].pc = "find-moderator" /\ runs[r].aiPriority = "low"
       /\ runs[r].ticketId \in Live /\ tickets[runs[r].ticketId].priority = "high"
  /\ \A q \in RunIds : runs[q].aiPriority # "high"

StepRank(pc) ==
  CASE pc = "idle" -> 0 [] pc = "ai-analysis" -> 1 [] pc = "update-ticket" -> 2
    [] pc = "find-moderator" -> 3 [] pc = "assign-ticket" -> 4
    [] pc = "notify-user" -> 5 [] pc = "done" -> 6 [] OTHER -> 7

C20_RepoErrorYieldsNoModerator ==
  /\ [](\A r \in RunIds :
          runs[r].repoFailed
            => /\ runs[r].selected = None
               /\ runs[r].err # "find_query"
               /\ CountType(sent[r], "ticket_assigned") = 0)
  /\ [][\A r \in RunIds :
          /\ (Stepped(r) /\ runs[r].pc = "find-moderator")
               => runs'[r].pc = "assign-ticket" /\ runs'[r].err = None
          /\ (Stepped(r) /\ runs[r].pc = "assign-ticket" /\ runs[r].repoFailed
                /\ ActiveAdmins # {} /\ runs'[r].pc = "notify-user")
               => tickets'[runs[r].ticketId].assignedTo \in ActiveAdmins]_vars

C20_Witness ==
  \E r \in RunIds :
    /\ runs[r].pc = "done" /\ runs[r].repoFailed
    /\ CountType(sent[r], "ticket_assigned_fallback") = 1
    /\ FindModeratorsBySkills(runs[r].requiredSkills) # <<>>

C22_EstimateFollowsAssignment ==
  \A r \in RunIds :
    runs[r].pc = "done"
      => LET note == sent[r][Len(sent[r])]
             matched == \E i \in 1..Len(sent[r]) :
                          /\ sent[r][i].type = "ticket_assigned"
                          /\ users[sent[r][i].to].skills \cap runs[r].requiredSkills # {}
         IN /\ note.type = "ticket_created"
            /\ note.estimatedResponse \in {"2-4 hours", "4-8 hours"}
            /\ note.estimatedResponse = "2-4 hours" <=> matched
            /\ note.estimatedResponse = "4-8 hours"
                 <=> CountType(sent[r], "ticket_assigned") = 0

C22_Witness ==
  \E r, q \in RunIds :
    /\ runs[r].pc = "done" /\ runs[q].pc = "done"
    /\ sent[r][Len(sent[r])].estimatedResponse = "2-4 hours"
    /\ sent[q][Len(sent[q])].estimatedResponse = "4-8 hours"
    /\ CountType(sent[q], "ticket_assigned_fallback") = 1

(* ---------------------- claims on the response time --------------------- *)
(* C7: once a ticket's responseTime is populated, 0 included, no later      *)
(* assignment or reassignment changes it.                                   *)
C7_ResponseTimeSetOnce ==
  [][\A t \in Live \cap DOMAIN tickets' :
       tickets[t].responseTime # Unset
         => tickets'[t].responseTime = tickets[t].responseTime]_vars

(* C8: every ticket that has an assignee has its responseTime set,          *)
(* whichever operation attached the assignee.                               *)
C8_AssignedHasResponseTime ==
  \A t \in Live : tickets[t].assignedTo # None => tickets[t].responseTime # Unset

(* --------------------- ticket numbering on its own ---------------------- *)
InitNumbering == InitWith(NumberingTickets) /\ aiCall = NoCall

NextNumbering ==
  \/ \E c \in DOMAIN creates : CreateCount(c)
  \/ \E c \in DOMAIN creates : CreateSave(c)
  \/ \E a \in UserIds, t \in Live : DeleteTicket(a, t)

SpecNumbering == InitNumbering /\ [][NextNumbering]_vars

Generated == {c \in DOMAIN creates : creates[c].pc # "idle"}
InFlight == {c \in DOMAIN creates : creates[c].pc = "counted"}

(* C1: no two ticket creations of the year generate the same ticket number, *)
(* also when both read the year's count before either saves.                *)
C1_UniqueGenerated ==
  \A c, d \in Generated : c # d => creates[c].number # creates[d].number

(* C2: in a sequential history of creations and deletions, a newly          *)
(* generated ticket number is strictly greater than every number generated  *)
(* earlier in the year.                                                     *)
C2_MonotoneGenerated ==
  [][\A c \in DOMAIN creates :
       (creates[c].pc = "idle" /\ creates'[c].pc = "counted" /\ InFlight = {})
         => \A d \in Generated : creates'[c].number > creates[d].number]_vars

(* ------------------------- analyzeTicket on its own --------------------- *)
InitAnalysis ==
  /\ InitWith({})
  /\ aiCall \in AnalysisCalls

NextAnalysis == AnalyzeTicket

SpecAnalysis == InitAnalysis /\ [][NextAnalysis]_vars

ValidResult(res) ==
  /\ res.aiCategory \in ValidCategories
  /\ res.aiPriority \in Priorities
  /\ res.aiSummary.len > 0
  /\ Len(res.suggestedTags) <= TagLimit
  /\ Len(res.requiredSkills) <= SkillLimit

(* C15: every call of analyzeTicket returns, and returns a result whose     *)
(* category is one of the valid categories, whose priority is low, medium   *)
(* or high, whose summary is not empty and whose tag and skill lists are    *)
(* within their length limits, whatever the generative model answers.       *)
C15_AnalysisAlwaysValid ==
  aiCall.pc \in {"called", "returned"}
  /\ (aiCall.pc = "returned" => ValidResult(aiCall.result))

(* C23: on a parsed answer validateAnalysis puts Other for a category      *)
(* outside the valid categories and medium for a priority outside low,      *)
(* medium, high, cuts the summary at its length limit, and returns tag and  *)
(* skill lists of strings only, no longer than their limits.                *)
C23_ValidationSanitizes ==
  (aiCall.pc = "returned" /\ aiCall.upstream = "json")
    => LET b == aiCall.body
           res == aiCall.result
       IN /\ res.aiCategory = IF b.aiCategory \in ValidCategories
                              THEN b.aiCategory ELSE "Other"
          /\ res.aiPriority = IF b.aiPriority \in Priorities
                              THEN b.aiPriority ELSE "medium"
          /\ b.aiSummary.type = "string"
               => /\ res.aiSummary.len <= SummaryLimit
                  /\ b.aiSummary.len <= SummaryLimit => res.aiSummary.len = b.aiSummary.len
                  /\ b.aiSummary.len > SummaryLimit => res.aiSummary.len = SummaryLimit
          /\ Len(res.suggestedTags) <= TagLimit
          /\ Len(res.requiredSkills) <= SkillLimit
          /\ \A i \in 1..Len(res.suggestedTags) : res.suggestedTags[i] = "string"
          /\ \A i \in 1..Len(res.requiredSkills) : res.requiredSkills[i] = "string"

C23_Witness ==
  /\ aiCall.pc = "returned" /\ aiCall.upstream = "json"
  /\ aiCall.body.aiCategory = "Hardware" /\ aiCall.result.aiCategory = "Other"
  /\ aiCall.body.aiPriority = "urgent" /\ aiCall.result.aiPriority = "medium"
  /\ aiCall.body.aiSummary.len > SummaryLimit
  /\ Len(aiCall.body.suggestedTags.items) > TagLimit
  /\ Len(aiCall.body.requiredSkills.items) > SkillLimit
  /\ aiCall.body.requiredSkills.items[1] = "number"
  /\ Len(aiCall.result.requiredSkills) = SkillLimit - 1

(* C24: the fallback analysis depends on subject, description and category  *)
(* only: its priority is high when the text has an urgency keyword, else    *)
(* low when it has a request keyword, else medium, and it is the same       *)
(* result whichever upstream failure led to it.                             *)
C24_FallbackByKeywords ==
  (aiCall.pc = "returned" /\ aiCall.upstream # "json")
    => /\ aiCall.result.aiPriority =
            IF \E w \in aiCall.words : w \in HighWords THEN "high"
            ELSE IF \E w \in aiCall.words : w \in LowWords THEN "low"
            ELSE "medium"
       /\ aiCall.result = GetFallbackAnalysis(aiCall.subjectLen, aiCall.words,
                                              aiCall.category)

C24_Witness ==
  /\ aiCall.pc = "returned" /\ aiCall.upstream = "parse_throws"
  /\ "help" \in aiCall.words /\ "error" \in aiCall.words
  /\ aiCall.result.aiPriority = "high"

(* ------------------- the pipeline with the dispatcher ------------------- *)
NextNotify ==
  \/ \E c \in DOMAIN creates : CreateCount(c)
  \/ \E c \in DOMAIN creates : CreateSave(c)
  \/ \E r \in StaffRuns : PipelineStep(r)
  \/ \E r \in StaffRuns : DispatchSent(r)
  \/ \E type \in ExternalTypes : DispatchExternal(type)

SpecNotify == Init /\ [][NextNotify]_vars

Dispatched == deliveries' # deliveries

(* C16: sendNotification never throws: when the mail cannot be sent or the  *)
(* type is unknown it returns success = false with the error message, and   *)
(* handling a notification changes no run, ticket or queued notification.   *)
C16_DispatchNeverRaises ==
  /\ [](\A i \in DOMAIN deliveries :
          /\ ~deliveries[i].raised
          /\ deliveries[i].type \notin KnownTypes => ~deliveries[i].success
          /\ ~deliveries[i].success => deliveries[i].error # None)
  /\ [][Dispatched => /\ Len(deliveries') = Len(deliveries) + 1
                      /\ UNCHANGED <<runs, tickets, sent>>]_vars

C16_Witness ==
  /\ \E i \in DOMAIN deliveries :
       deliveries[i].type = "password_reset" /\ ~deliveries[i].success
  /\ \E i \in DOMAIN deliveries :
       /\ deliveries[i].type = "ticket_created" /\ ~deliveries[i].success
       /\ runs[deliveries[i].origin].pc = "done"

(* ------------- a ticket's life under the routes, with the clock --------- *)
RatingInputs == {0, 1, 5, 6}

NextLifecycle ==
  \/ Tick
  \/ \E c \in DOMAIN creates : CreateCount(c)
  \/ \E c \in DOMAIN creates : CreateSave(c)
  \/ \E a \in UserIds, t \in Live, b \in UpdateBodies : UpdateTicket(a, t, b)
  \/ \E a \in UserIds, t \in Live, m \in UserIds : AssignTicket(a, t, m)
  \/ \E a \in UserIds, t \in Live, n \in RatingInputs, f \in Feedbacks :
       AddSatisfaction(a, t, n, f)

SpecLifecycle == Init /\ [][NextLifecycle]_vars

(* C17: resolvedAt and resolutionTime are set when a ticket's status first  *)
(* becomes resolved and no later status change, reopening, second           *)
(* resolution or assignment changes them.                                   *)
C17_ResolutionSetOnce ==
  [][\A t \in Live \cap DOMAIN tickets' :
       /\ tickets[t].resolvedAt # Unset
            => /\ tickets'[t].resolvedAt = tickets[t].resolvedAt
               /\ tickets'[t].resolutionTime = tickets[t].resolutionTime
       /\ (tickets[t].resolvedAt = Unset /\ tickets[t].status # "resolved"
             /\ tickets'[t].status = "resolved")
            => /\ tickets'[t].resolvedAt = now
               /\ tickets'[t].resolutionTime = Minutes(tickets[t].createdAt, now)
       /\ tickets'[t].status = "resolved" => tickets'[t].resolvedAt # Unset]_vars

(* resolved at time 0, closed at a later time and resolved once more *)
C17_Witness ==
  \E t \in Live :
    /\ tickets[t].status = "resolved"
    /\ tickets[t].resolvedAt # Unset
    /\ tickets[t].closedAt # Unset
    /\ tickets[t].closedAt > tickets[t].resolvedAt

(* C18: a satisfaction rating is stored only while the ticket is resolved   *)
(* or closed and only when the ticket has no rating yet: a rated ticket     *)
(* keeps its rating and feedback.                                           *)
C18_SatisfactionOnce ==
  [][\A t \in Live \cap DOMAIN tickets' :
       tickets'[t].satisfaction # tickets[t].satisfaction
         => /\ tickets[t].satisfaction.rating = Unset
            /\ tickets[t].status \in {"resolved", "closed"}]_vars

(* ---------------- comments among the other ticket operations ------------ *)
(* request bodies of PUT /api/tickets/:id: a status, a priority, an assignee *)
CommentedUpdates ==
  {[status |-> "resolved", priority |-> None, assignedTo |-> None],
   [status |-> None, priority |-> "high", assignedTo |-> None],
   [status |-> None, priority |-> None, assignedTo |-> "m1"]}

NextComments ==
  \/ \E c \in DOMAIN creates : CreateCount(c)
  \/ \E c \in DOMAIN creates : CreateSave(c)
  \/ \E a \in UserIds, t \in Live, msg \in Messages, i \in BOOLEAN : AddComment(a, t, msg, i)
  \/ \E a \in UserIds, t \in Live, b \in CommentedUpdates : UpdateTicket(a, t, b)
  \/ \E a \in UserIds, t \in Live, n \in RatingInputs, f \in Feedbacks :
       AddSatisfaction(a, t, n, f)
  \/ \E r \in StaffRuns : PipelineStep(r)

SpecComments == Init /\ [][NextComments]_vars

(* C25: every step leaves the comments a ticket already has unchanged and   *)
(* in their order, and a step that adds a comment appends exactly one       *)
(* entry at the end of the list.                                            *)
C25_CommentsAppendOnly ==
  [][\A t \in Live \cap DOMAIN tickets' :
       LET old == tickets[t].comments
           new == tickets'[t].comments
       IN /\ Len(new) \in {Len(old), Len(old) + 1}
          /\ SubSeq(new, 1, Len(old)) = old]_vars

C25_Witness ==
  \E t \in Live :
    /\ Len(tickets[t].comments) = 2
    /\ tickets[t].comments[1].user # tickets[t].comments[2].user
    /\ tickets[t].comments[2].isInternal
    /\ tickets[t].assignedBy = "system"

(* ------------------ bulk-assign requests on two tickets ----------------- *)
BulkTickets == {"t1", "t2"}

InitBulk == InitWith(BulkTickets) /\ aiCall = NoCall

NextBulk ==
  \/ \E c \in DOMAIN creates : CreateCount(c)
  \/ \E c \in DOMAIN creates : CreateSave(c)
  \/ \E a \in UserIds, t \in Live : DeleteTicket(a, t)
  \/ \E a \in UserIds, ids \in SUBSET DOMAIN creates, m \in UserIds : BulkAssign(a, ids, m)

SpecBulk == InitBulk /\ [][NextBulk]_vars

(* C26: a bulk-assign request leaves every ticket that has an assignee as   *)
(* it is (assignee, assigning actor, status), assigns each unassigned       *)
(* ticket it names, and reports the number it assigned; so of two requests  *)
(* naming the same unassigned ticket only the first assigns it.             *)
C26_BulkAssignOnlyUnassigned ==
  [][reqs' = reqs + 1
       => /\ response'.route = "bulk-assign"
          /\ \A t \in Live :
               tickets[t].assignedTo # None => tickets'[t] = tickets[t]
          /\ \A t \in Live \cap response'.ids :
               tickets[t].assignedTo = None
                 => /\ tickets'[t].assignedTo # None
                    /\ tickets'[t].status = "in-progress"
          /\ response'.assignedCount =
               Cardinality({t \in Live \cap response'.ids :
                              tickets[t].assignedTo = None})]_vars

(* a second request for a ticket that an earlier request has assigned *)
C26_Witness ==
  /\ reqs = 2
  /\ response.route = "bulk-assign" /\ response.assignedCount = 0
  /\ \E t \in Live \cap response.ids :
       tickets[t].assignedTo # None /\ tickets[t].assignedBy \in UserIds

(* ----------------------- the ticket list of a requester ------------------ *)
NextList ==
  \/ \E c \in DOMAIN creates : CreateCount(c)
  \/ \E c \in DOMAIN creates : CreateSave(c)
  \/ \E a \in UserIds, t \in Live, m \in UserIds : AssignTicket(a, t, m)
  \/ \E a \in UserIds, q \in Queries : ListTickets(a, q)

SpecList == InitBulk /\ [][NextList]_vars

(* C27: the list a moderator gets from GET /api/tickets holds only tickets  *)
(* assigned to that moderator or to nobody, whatever filters are given.     *)
C27_ModeratorListScoped ==
  [][(response' # response /\ response'.route = "list"
        /\ users[response'.actor].role = "moderator")
       => \A t \in response'.tickets :
            tickets[t].assignedTo \in {response'.actor, None}]_vars

(* C28: no request by a moderator changes the status or the priority of a   *)
(* ticket that is assigned to a different moderator. The requester of an    *)
(* assigning request is the assignedBy it writes.                           *)
C28_OtherModeratorsTicketUntouched ==
  [][\A t \in Live \cap DOMAIN tickets' :
       LET owner == tickets[t].assignedTo
           by == tickets'[t].assignedBy
       IN (/\ owner \in DOMAIN users /\ users[owner].role = "moderator"
           /\ by # tickets[t].assignedBy
           /\ by \in DOMAIN users /\ users[by].role = "moderator"
           /\ by # owner)
          => /\ tickets'[t].status = tickets[t].status
             /\ tickets'[t].priority = tickets[t].priority]_vars

(* --------------------- the admin router beside the pipeline -------------- *)
NextAdmin ==
  \/ \E c \in DOMAIN creates : CreateCount(c)
  \/ \E c \in DOMAIN creates : CreateSave(c)
  \/ \E a \in UserIds, op \in AdminOps : AdminRequest(a, op)
  \/ \E r \in StaffRuns : PipelineStep(r)

SpecAdmin == Init /\ [][NextAdmin]_vars

(* C30: the admin routes let a request through exactly when the             *)
(* authenticated user's role is admin: an active admin reaches the handler, *)
(* an active user of any other role gets 403.                               *)
C30_AdminRoutesAdminOnly ==
  [][(response' # response /\ response'.route = "admin"
        /\ Authenticated(response'.actor))
       => response'.status =
            (IF users[response'.actor].role = "admin" THEN 200 ELSE 403)]_vars

(* ------------- the pipeline beside the user-management handlers ---------- *)
(* the handlers run as written; the guards in front of them are AdminRequest *)
NextUsers ==
  \/ \E c \in DOMAIN creates : CreateCount(c)
  \/ \E c \in DOMAIN creates : CreateSave(c)
  \/ \E u \in UserIds, ro \in Roles : UpdateUserRole(u, ro)
  \/ \E u \in UserIds : DeleteUser(u)
  \/ \E r \in StaffRuns : PipelineStep(r)

SpecUsers == Init /\ [][NextUsers]_vars

====
